---- MODULE Spec2Model ----
(***************************************************************************)
(* Model of the scrcpy demuxer (app/src/demuxer.c): the owner thread       *)
(* registers sinks and starts the demuxer thread; the demuxer thread       *)
(* negotiates the codec, opens the sinks, reads framed packets from the    *)
(* socket, merges config packets (video only), fans packets out to the     *)
(* sinks, closes the sinks and reports the end of the session.             *)
(***************************************************************************)
EXTENDS Integers, Sequences, FiniteSets, TLC

(***************************************************************************)
(* Bounds of the model.                                                    *)
(***************************************************************************)
\* capacity of the sink array (SC_DEMUXER_MAX_SINKS, set in demuxer.h)
MaxSinks == 3
\* number of packet headers the peer sends before it closes the socket
MaxPackets == 3

(***************************************************************************)
(* Program constants.                                                      *)
(***************************************************************************)
SC_PACKET_HEADER_SIZE == 12
SC_CODEC_TAG_SIZE == 4
AV_PKT_FLAG_KEY == 1

(***************************************************************************)
(* 64-bit values are kept as 8 big-endian bytes, 32-bit values that fit    *)
(* are plain integers.                                                     *)
(***************************************************************************)
RECURSIVE BitAnd(_, _)
BitAnd(a, b) ==
    IF a = 0 \/ b = 0 THEN 0
    ELSE (a % 2) * (b % 2) + 2 * BitAnd(a \div 2, b \div 2)

RECURSIVE BitOr(_, _)
BitOr(a, b) ==
    IF a = 0 THEN b
    ELSE IF b = 0 THEN a
    ELSE (IF a % 2 = 1 \/ b % 2 = 1 THEN 1 ELSE 0) + 2 * BitOr(a \div 2, b \div 2)

And64(a, b) == [k \in 1..8 |-> BitAnd(a[k], b[k])]

Zero64 == [k \in 1..8 |-> 0]

\* a - 1 for a # 0, on 8 big-endian bytes (borrow from the right)
Dec64(a) ==
    LET last == CHOOSE k \in 1..8 : a[k] # 0 /\ \A j \in (k+1)..8 : a[j] = 0
    IN  [k \in 1..8 |-> IF k < last THEN a[k]
                        ELSE IF k = last THEN a[k] - 1
                        ELSE 255]

\* UINT64_C(1) << n
Shl1(n) == [k \in 1..8 |-> IF k = 8 - (n \div 8) THEN 2 ^ (n % 8) ELSE 0]

SC_PACKET_FLAG_CONFIG == Shl1(63)
SC_PACKET_FLAG_KEY_FRAME == Shl1(62)
\* faulty variant of SC_PACKET_PTS_MASK: the mask keeps bit 62
Faulty_SC_PACKET_PTS_MASK == Dec64(SC_PACKET_FLAG_CONFIG)

SC_PACKET_PTS_MASK == Dec64(SC_PACKET_FLAG_KEY_FRAME)

\* libavutil: ((int64_t) UINT64_C(0x8000000000000000))
AV_NOPTS_VALUE == <<128, 0, 0, 0, 0, 0, 0, 0>>

sc_read32be(b) == ((b[1] * 256 + b[2]) * 256 + b[3]) * 256 + b[4]

sc_read64be(b) == [k \in 1..8 |-> b[k]]

sc_write32be(v) ==
    <<(v \div 16777216) % 256, (v \div 65536) % 256, (v \div 256) % 256, v % 256>>

(***************************************************************************)
(* Codec negotiation.                                                      *)
(***************************************************************************)
SC_CODEC_ID_H264 == sc_read32be(<<104, 50, 54, 52>>)
SC_CODEC_ID_H265 == sc_read32be(<<104, 50, 54, 53>>)
SC_CODEC_ID_AV1 == sc_read32be(<<0, 97, 118, 49>>)
SC_CODEC_ID_OPUS == sc_read32be(<<111, 112, 117, 115>>)

\* faulty variant of sc_demuxer_to_avcodec_id: an unknown tag is taken as h264
Faulty_sc_demuxer_to_avcodec_id(codec_id) ==
    CASE codec_id = SC_CODEC_ID_H265 -> "AV_CODEC_ID_HEVC"
      [] codec_id = SC_CODEC_ID_AV1 -> "AV_CODEC_ID_AV1"
      [] codec_id = SC_CODEC_ID_OPUS -> "AV_CODEC_ID_OPUS"
      [] OTHER -> "AV_CODEC_ID_H264"

sc_demuxer_to_avcodec_id(codec_id) ==
    CASE codec_id = SC_CODEC_ID_H264 -> "AV_CODEC_ID_H264"
      [] codec_id = SC_CODEC_ID_H265 -> "AV_CODEC_ID_HEVC"
      [] codec_id = SC_CODEC_ID_AV1 -> "AV_CODEC_ID_AV1"
      [] codec_id = SC_CODEC_ID_OPUS -> "AV_CODEC_ID_OPUS"
      [] OTHER -> "AV_CODEC_ID_NONE"

\* libavcodec: the media type of a codec
AVCodecType(id) ==
    IF id = "AV_CODEC_ID_OPUS" THEN "AVMEDIA_TYPE_AUDIO" ELSE "AVMEDIA_TYPE_VIDEO"

\* the 4-byte tags the peer may send: the four known ones, "h263", "av1 "
Tags ==
    { <<104, 50, 54, 52>>, <<104, 50, 54, 53>>, <<0, 97, 118, 49>>,
      <<111, 112, 117, 115>>, <<104, 50, 54, 51>>, <<97, 118, 49, 32>> }

\* faulty variant of MustMergeConfigPacket: every stream is merged
Faulty_MustMergeConfigPacket(type) == TRUE

MustMergeConfigPacket(type) == type = "AVMEDIA_TYPE_VIDEO"

(***************************************************************************)
(* Wire frames.  The n-th frame of a session carries a timestamp and       *)
(* payload bytes that identify it, so that any loss, duplication or        *)
(* reordering of bytes shows; its flags are free, and the peer may also    *)
(* send a frame that declares a length of 0.                               *)
(***************************************************************************)
WireTs(n) == <<(21 * n) % 64, 0, 0, 0, 0, 0, 255, n>>

WireLen(n) == 1 + (n % 2)

WireData(n, len) == [j \in 1..len |-> 16 * n + j]

Frame(n, config, key, len) ==
    [n |-> n, config |-> config, key |-> key, ts |-> WireTs(n),
     len |-> len, data |-> WireData(n, len)]

NoFrame == [n |-> 0, config |-> FALSE, key |-> FALSE, ts |-> Zero64,
            len |-> 0, data |-> <<>>]

\* the server's encoding of the 12-byte header (layout of lines 60-75)
EncodePtsFlags(f) ==
    [k \in 1..8 |-> IF k = 1
                    THEN f.ts[1] + (IF f.config THEN 128 ELSE 0)
                                 + (IF f.key THEN 64 ELSE 0)
                    ELSE f.ts[k]]

EncodeHeader(f) ==
    LET p == EncodePtsFlags(f)
        l == sc_write32be(f.len)
    IN  [k \in 1..SC_PACKET_HEADER_SIZE |-> IF k <= 8 THEN p[k] ELSE l[k - 8]]

(***************************************************************************)
(* AVPacket (libavcodec).                                                  *)
(***************************************************************************)
\* get_packet_defaults(): the state of a blank packet
BlankPacket ==
    [data |-> <<>>, pts |-> AV_NOPTS_VALUE, dts |-> AV_NOPTS_VALUE,
     flags |-> 0, buf |-> FALSE]

\* faulty variant of av_packet_unref: the buffer is not released
Faulty_av_packet_unref(p) == p

av_packet_unref(p) == BlankPacket

\* av_new_packet(): on success a blank packet with a buffer of `size' bytes
av_new_packet(p, size) == [BlankPacket EXCEPT !.buf = TRUE]

\* the decoding part of sc_demuxer_recv_packet, after the payload is read
DecodePacket(p, pts_flags, payload) ==
    LET pts == IF And64(pts_flags, SC_PACKET_FLAG_CONFIG) # Zero64
               THEN AV_NOPTS_VALUE
               ELSE And64(pts_flags, SC_PACKET_PTS_MASK)
        flags == IF And64(pts_flags, SC_PACKET_FLAG_KEY_FRAME) # Zero64
                 THEN BitOr(p.flags, AV_PKT_FLAG_KEY)
                 ELSE p.flags
    IN  [p EXCEPT !.data = payload, !.pts = pts, !.flags = flags, !.dts = pts]

\* what a sink sees of a packet
View(p) == [data |-> p.data, pts |-> p.pts, dts |-> p.dts, flags |-> p.flags]

NoView == [data |-> <<>>, pts |-> Zero64, dts |-> Zero64, flags |-> -1]

\* the bytes of a codec tag, as the payload of an event
TagView(tag) == [NoView EXCEPT !.data = tag]

\* the bytes read from the socket, as the payload of an event
BytesView(bytes) == [NoView EXCEPT !.data = bytes]

(***************************************************************************)
(* Packet merger (packet_merger.c), modelled from the specification.       *)
(***************************************************************************)
MergerInit == [config |-> <<>>]

MergerIsConfig(p) == p.pts = AV_NOPTS_VALUE

\* faulty variant of MergerNext: a config packet replaces the pending buffer
Faulty_MergerNext(m, p) ==
    IF MergerIsConfig(p) THEN [m EXCEPT !.config = p.data]
    ELSE [m EXCEPT !.config = <<>>]

\* the merger state after a successful merge of packet p
MergerNext(m, p) ==
    IF MergerIsConfig(p) THEN [m EXCEPT !.config = m.config \o p.data]
    ELSE [m EXCEPT !.config = <<>>]

\* the packet after a successful merge
MergerOut(m, p) ==
    IF MergerIsConfig(p) THEN p
    ELSE [p EXCEPT !.data = m.config \o p.data]

\* a merge that has to build a buffer may fail
MergerMayFail(m, p) == MergerIsConfig(p) \/ m.config # <<>>

(***************************************************************************)
(* The history of sink-, socket- and owner-visible events.                 *)
(***************************************************************************)
Ev(op, sink, ok, pkt, frame) ==
    [op |-> op, sink |-> sink, ok |-> ok, pkt |-> pkt, frame |-> frame]

SimpleEv(op, sink, ok) == Ev(op, sink, ok, NoView, NoFrame)

\* faulty variant of sc_demuxer_close_first_sinks: closes 0, ..., count-1
Faulty_sc_demuxer_close_first_sinks(count) ==
    [j \in 1..count |-> SimpleEv("close", j - 1, TRUE)]

\* sc_demuxer_close_first_sinks: close sinks count-1, ..., 0
RECURSIVE sc_demuxer_close_first_sinks(_)
sc_demuxer_close_first_sinks(count) ==
    IF count = 0 THEN <<>>
    ELSE <<SimpleEv("close", count - 1, TRUE)>>
         \o sc_demuxer_close_first_sinks(count - 1)

sc_demuxer_close_sinks(n) == sc_demuxer_close_first_sinks(n)

\* sc_demuxer_open_sinks where the open of sink `fail' fails (none if
\* fail = n): opens 0..fail in order, then closes the opened ones
RECURSIVE OpenLoop(_, _, _)
OpenLoop(i, n, fail) ==
    IF i >= n THEN <<>>
    ELSE IF i = fail
         THEN <<SimpleEv("open", i, FALSE)>> \o sc_demuxer_close_first_sinks(i)
         ELSE <<SimpleEv("open", i, TRUE)>> \o OpenLoop(i + 1, n, fail)

\* faulty variant of sc_demuxer_open_sinks: a failed open closes every sink
\* (sc_demuxer_close_sinks instead of sc_demuxer_close_first_sinks(i))
RECURSIVE Faulty_OpenLoop(_, _, _)
Faulty_OpenLoop(i, n, fail) ==
    IF i >= n THEN <<>>
    ELSE IF i = fail
         THEN <<SimpleEv("open", i, FALSE)>> \o sc_demuxer_close_sinks(n)
         ELSE <<SimpleEv("open", i, TRUE)>> \o Faulty_OpenLoop(i + 1, n, fail)

Faulty_sc_demuxer_open_sinks(n, fail) == Faulty_OpenLoop(0, n, fail)

sc_demuxer_open_sinks(n, fail) == OpenLoop(0, n, fail)

\* faulty variant of OpenSinksOk: the result of open is ignored
Faulty_OpenSinksOk(n, fail) == TRUE

\* the value sc_demuxer_open_sinks returns
OpenSinksOk(n, fail) == ~(fail < n)

\* push_packet_to_sinks where the push of sink `fail' fails (none if
\* fail = n): pushes to 0..fail in order and stops at the failure
RECURSIVE PushLoop(_, _, _, _)
PushLoop(i, n, fail, pkt) ==
    IF i >= n THEN <<>>
    ELSE IF i = fail
         THEN <<Ev("push", i, FALSE, pkt, NoFrame)>>
         ELSE <<Ev("push", i, TRUE, pkt, NoFrame)>> \o PushLoop(i + 1, n, fail, pkt)

\* faulty variant of push_packet_to_sinks: a config packet is not pushed
Faulty_push_media_to_sinks(n, fail, pkt) ==
    IF pkt.pts = AV_NOPTS_VALUE THEN <<>> ELSE PushLoop(0, n, fail, pkt)

\* faulty variant of push_packet_to_sinks: the loop goes on after a failed push
Faulty_push_packet_to_sinks(n, fail, pkt) ==
    [j \in 1..n |-> Ev("push", j - 1, j - 1 # fail, pkt, NoFrame)]

\* faulty variant of push_packet_to_sinks: the packet is pushed twice
Faulty_push_packet_twice(n, fail, pkt) ==
    PushLoop(0, n, fail, pkt) \o PushLoop(0, n, fail, pkt)

push_packet_to_sinks(n, fail, pkt) == PushLoop(0, n, fail, pkt)

\* faulty variant of sc_demuxer_push_packet: the result of push is ignored
Faulty_sc_demuxer_push_packet(n, fail) == TRUE

\* the value sc_demuxer_push_packet returns
sc_demuxer_push_packet(n, fail) == ~(fail < n)


(***************************************************************************)
(* The reads of the socket (net_recv_all returns the number of bytes read, *)
(* or a negative value).                                                   *)
(***************************************************************************)
\* line 46: the 4 bytes of the codec tag were read
CodecIdReceived(r) == ~(r < SC_CODEC_TAG_SIZE)

\* line 79: the 12 bytes of the header were read
HeaderReceived(r) == ~(r < SC_PACKET_HEADER_SIZE)

\* faulty variant of PayloadReceived: only an error counts as a failure
Faulty_PayloadReceived(r, len) == ~(r < 0)

\* line 93: the len bytes of the payload were read
PayloadReceived(r, len) == ~(r < 0 \/ r < len)

\* the byte counts net_recv_all may return for a request of n bytes: an
\* error, nothing, one byte short, all
Reads(n) == {-1, 0, n - 1, n}

\* the bytes of the payload of frame f that a read returning r delivers
Received(f, r) == SubSeq(f.data, 1, IF r < 0 THEN 0 ELSE r)

\* the frames the peer may send as its n-th frame
FramesAt(n) ==
    { Frame(n, c, k, WireLen(n)) : c \in BOOLEAN, k \in BOOLEAN }
        \cup { Frame(n, FALSE, FALSE, 0) }

\* sc_demuxer_recv_packet: hr bytes of the header of frame f arrive; if the
\* header is whole, the build keeps the assertion or not, av_new_packet
\* succeeds or not, and pr bytes of the payload arrive
sc_demuxer_recv_packet(p, hr, f, asserts, alloc_ok, pr) ==
    IF ~HeaderReceived(hr)
    THEN [ok |-> FALSE, abort |-> FALSE, packet |-> p,
          evs |-> <<SimpleEv("recv_header", -1, FALSE)>>]
    ELSE
    LET header == EncodeHeader(f)
        pts_flags == sc_read64be(header)
        len == sc_read32be(<<header[9], header[10], header[11], header[12]>>)
        got == <<Ev("recv_header", -1, TRUE, NoView, f)>>
    IN  IF len = 0 /\ asserts
        THEN [ok |-> FALSE, abort |-> TRUE, packet |-> p,
              evs |-> got \o <<SimpleEv("abort", -1, FALSE)>>]
        ELSE IF ~alloc_ok
        THEN [ok |-> FALSE, abort |-> FALSE, packet |-> p,
              evs |-> got \o <<SimpleEv("new_packet", -1, FALSE)>>]
        ELSE IF ~PayloadReceived(pr, len)
        THEN [ok |-> FALSE, abort |-> FALSE,
              packet |-> av_packet_unref(av_new_packet(p, len)),
              evs |-> got \o <<SimpleEv("new_packet", -1, TRUE),
                               Ev("recv_payload", -1, FALSE,
                                  BytesView(Received(f, pr)), NoFrame),
                               SimpleEv("unref", -1, TRUE)>>]
        ELSE [ok |-> TRUE, abort |-> FALSE,
              packet |-> DecodePacket(av_new_packet(p, len), pts_flags,
                                      Received(f, pr)),
              evs |-> got \o <<SimpleEv("new_packet", -1, TRUE),
                               Ev("recv_payload", -1, TRUE,
                                  BytesView(Received(f, pr)), NoFrame)>>]

(***************************************************************************)
(* State.                                                                  *)
(***************************************************************************)
VARIABLES
    owner,       \* position of the owner thread
    sink_count,  \* demuxer->sink_count
    pc,          \* position of the demuxer thread in run_demuxer
    eos,         \* the local eos of run_demuxer
    codec,       \* codec->type of the local codec of run_demuxer, or NoCodec
    merger,      \* the local merger, or NoMerger when not initialized
    packet,      \* the local packet (*packet), or NoPacket when not allocated
    nread,       \* number of frames whose header the peer has sent
    trace        \* history of events

vars == <<owner, sink_count, pc, eos, codec, merger, packet, nread, trace>>

NoCodec == "AVMEDIA_TYPE_UNKNOWN"
NoMerger == [config |-> <<-1>>]
NoPacket == [data |-> <<>>, pts |-> Zero64, dts |-> Zero64, flags |-> -1,
             buf |-> FALSE]

\* line 166
EosInitial == FALSE
\* line 171
EosOnCodecIdFailure == TRUE
\* faulty variant of EosOnRecvPacketFailure: a failed read is not an end of stream
Faulty_EosOnRecvPacketFailure == FALSE

\* line 211
EosOnRecvPacketFailure == TRUE

\* sc_demuxer_init
Init ==
    /\ owner = "init"
    /\ sink_count = 0
    /\ pc = "not_started"
    /\ eos = EosInitial
    /\ codec = NoCodec
    /\ merger = NoMerger
    /\ packet = NoPacket
    /\ nread = 0
    /\ trace = <<>>

(***************************************************************************)
(* Owner thread.                                                           *)
(***************************************************************************)
sc_demuxer_add_sink ==
    /\ owner = "init"
    /\ sink_count < MaxSinks
    /\ sink_count' = sink_count + 1
    /\ UNCHANGED <<owner, pc, eos, codec, merger, packet, nread, trace>>

sc_demuxer_start ==
    /\ owner = "init"
    /\ \E ok \in BOOLEAN :
        IF ok
        THEN /\ owner' = "started"
             /\ pc' = "recv_codec_id"
        ELSE /\ owner' = "start_failed"
             /\ pc' = pc
    /\ UNCHANGED <<sink_count, eos, codec, merger, packet, nread, trace>>

\* sc_thread_join (util/thread.c) returns once the thread function,
\* run_demuxer, has returned
sc_thread_join == pc = "done"

\* faulty variant of sc_demuxer_join: returns without sc_thread_join
Faulty_sc_demuxer_join ==
    /\ owner \in {"started", "socket_closed"}
    /\ owner' = "joined"
    /\ trace' = Append(trace, SimpleEv("join", -1, TRUE))
    /\ UNCHANGED <<sink_count, pc, eos, codec, merger, packet, nread>>

\* lines 283-286
sc_demuxer_join ==
    /\ owner \in {"started", "socket_closed"}
    /\ sc_thread_join
    /\ owner' = "joined"
    /\ trace' = Append(trace, SimpleEv("join", -1, TRUE))
    /\ UNCHANGED <<sink_count, pc, eos, codec, merger, packet, nread>>

(***************************************************************************)
(* Demuxer thread: run_demuxer.                                            *)
(***************************************************************************)
\* faulty variant of EndEvents: the callback is not called
Faulty_EndEvents(e) == <<>>

\* line 242: the events of the code from label end
EndEvents(e) == <<SimpleEv("on_ended", -1, e)>>

\* lines 240-242: the events of the code from label finally_close_sinks
FinallyCloseSinksEvents(n, e) == sc_demuxer_close_sinks(n) \o EndEvents(e)

\* lines 232-242: the events of the code after the read loop
EndOfFramesEvents(must, n, e) ==
    (IF must THEN <<SimpleEv("merger_destroy", -1, TRUE)>> ELSE <<>>)
        \o <<SimpleEv("packet_free", -1, TRUE)>>
        \o FinallyCloseSinksEvents(n, e)

\* lines 166-185: read the codec tag, map it, find the decoder
NegotiateCodec ==
    /\ pc = "recv_codec_id"
    /\ \E r \in Reads(SC_CODEC_TAG_SIZE), tag \in Tags, found \in BOOLEAN :
        IF ~CodecIdReceived(r)
        THEN /\ eos' = EosOnCodecIdFailure
             /\ codec' = codec
             /\ pc' = "end"
             /\ trace' = Append(trace, SimpleEv("recv_codec_id", -1, FALSE))
        ELSE LET raw_codec_id == sc_read32be(tag)
                 codec_id == sc_demuxer_to_avcodec_id(raw_codec_id)
             IN  /\ eos' = eos
                 /\ IF codec_id = "AV_CODEC_ID_NONE"
                    THEN /\ codec' = codec
                         /\ pc' = "end"
                         /\ trace' = trace \o
                              <<Ev("recv_codec_id", -1, TRUE, TagView(tag), NoFrame),
                                SimpleEv("unknown_codec", -1, FALSE)>>
                    ELSE IF ~found
                    THEN /\ codec' = codec
                         /\ pc' = "end"
                         /\ trace' = trace \o
                              <<Ev("recv_codec_id", -1, TRUE, TagView(tag), NoFrame),
                                SimpleEv("find_decoder", -1, FALSE)>>
                    ELSE /\ codec' = AVCodecType(codec_id)
                         /\ pc' = "open_sinks"
                         /\ trace' = trace \o
                              <<Ev("recv_codec_id", -1, TRUE, TagView(tag), NoFrame),
                                SimpleEv("find_decoder", -1, TRUE)>>
    /\ UNCHANGED <<owner, sink_count, merger, packet, nread>>

\* lines 187-189
OpenSinks ==
    /\ pc = "open_sinks"
    /\ \E fail \in 0..sink_count :
        /\ trace' = trace \o sc_demuxer_open_sinks(sink_count, fail)
        /\ pc' = IF OpenSinksOk(sink_count, fail) THEN "init_merger" ELSE "end"
    /\ UNCHANGED <<owner, sink_count, eos, codec, merger, packet, nread>>

\* lines 191-205
InitMergerAllocPacket ==
    /\ pc = "init_merger"
    /\ \E alloc_ok \in BOOLEAN :
        LET must == MustMergeConfigPacket(codec)
            evs == IF must THEN <<SimpleEv("merger_init", -1, TRUE)>> ELSE <<>>
        IN  /\ merger' = IF must THEN MergerInit ELSE merger
            /\ IF alloc_ok
               THEN /\ packet' = BlankPacket
                    /\ pc' = "recv_packet"
                    /\ trace' = trace \o evs \o <<SimpleEv("packet_alloc", -1, TRUE)>>
               ELSE /\ packet' = packet
                    /\ pc' = "finally_close_sinks"
                    /\ trace' = trace \o evs \o <<SimpleEv("packet_alloc", -1, FALSE)>>
    /\ UNCHANGED <<owner, sink_count, eos, codec, nread>>

\* a build that keeps the assertion of line 85 has aborted at the first
\* header of length 0
AcceptedZeroLength ==
    \E k \in 1..Len(trace) :
        trace[k].op = "recv_header" /\ trace[k].ok /\ trace[k].frame.len = 0

\* faulty variant of RecvPacketOutcome: a failed read is tried again
Faulty_RecvPacketOutcome(res, whole) ==
    IF ~res.ok /\ ~res.abort
    THEN UNCHANGED <<trace, packet, nread, pc, eos>>
    ELSE /\ trace' = trace \o res.evs
         /\ packet' = res.packet
         /\ nread' = IF whole THEN nread + 1 ELSE nread
         /\ pc' = IF res.abort THEN "aborted"
                  ELSE IF MustMergeConfigPacket(codec) THEN "merge" ELSE "push"
         /\ eos' = eos

\* lines 208-213, with the outcome res of sc_demuxer_recv_packet
RecvPacketOutcome(res, whole) ==
    /\ trace' = trace \o res.evs
    /\ packet' = res.packet
    /\ nread' = IF whole THEN nread + 1 ELSE nread
    /\ IF res.abort
       THEN /\ pc' = "aborted"
            /\ eos' = eos
       ELSE IF ~res.ok
       THEN /\ pc' = "end_of_frames"
            /\ eos' = EosOnRecvPacketFailure
       ELSE /\ pc' = IF MustMergeConfigPacket(codec) THEN "merge" ELSE "push"
            /\ eos' = eos

\* lines 208-213
RecvPacket ==
    /\ pc = "recv_packet"
    /\ \/ \E hr \in Reads(SC_PACKET_HEADER_SIZE) :
            /\ ~HeaderReceived(hr)
            /\ RecvPacketOutcome(
                   sc_demuxer_recv_packet(packet, hr, NoFrame, FALSE, TRUE, 0),
                   FALSE)
       \/ /\ nread < MaxPackets
          /\ \E f \in FramesAt(nread + 1), asserts \in BOOLEAN,
                alloc_ok \in BOOLEAN :
                \E pr \in Reads(f.len) :
                    /\ asserts => f.len = 0 /\ ~AcceptedZeroLength
                    /\ f.len = 0 => pr = 0
                    /\ RecvPacketOutcome(
                           sc_demuxer_recv_packet(packet, SC_PACKET_HEADER_SIZE,
                                                  f, asserts, alloc_ok, pr),
                           TRUE)
    /\ UNCHANGED <<owner, sink_count, codec, merger>>

\* lines 215-222
MergePacket ==
    /\ pc = "merge"
    /\ \E fail \in BOOLEAN :
        /\ fail => MergerMayFail(merger, packet)
        /\ IF fail
           THEN /\ merger' = merger
                /\ packet' = av_packet_unref(packet)
                /\ pc' = "end_of_frames"
                /\ trace' = trace \o <<SimpleEv("merge", -1, FALSE),
                                       SimpleEv("unref", -1, packet.buf)>>
           ELSE /\ merger' = MergerNext(merger, packet)
                /\ packet' = MergerOut(merger, packet)
                /\ pc' = "push"
                /\ trace' = Append(trace, Ev("merge", -1, TRUE, View(packet'), NoFrame))
    /\ UNCHANGED <<owner, sink_count, eos, codec, nread>>

\* lines 224-229
PushPacket ==
    /\ pc = "push"
    /\ \E fail \in 0..sink_count :
        /\ trace' = trace \o push_packet_to_sinks(sink_count, fail, View(packet))
                          \o <<SimpleEv("unref", -1, packet.buf)>>
        /\ packet' = av_packet_unref(packet)
        /\ pc' = IF sc_demuxer_push_packet(sink_count, fail)
                 THEN "recv_packet" ELSE "end_of_frames"
    /\ UNCHANGED <<owner, sink_count, eos, codec, merger, nread>>

\* lines 232-245, after the read loop
EndOfFrames ==
    /\ pc = "end_of_frames"
    /\ trace' = trace \o
          EndOfFramesEvents(MustMergeConfigPacket(codec), sink_count, eos)
    /\ merger' = NoMerger
    /\ packet' = NoPacket
    /\ pc' = "done"
    /\ UNCHANGED <<owner, sink_count, eos, codec, nread>>

\* lines 239-245, from label finally_close_sinks
FinallyCloseSinks ==
    /\ pc = "finally_close_sinks"
    /\ trace' = trace \o FinallyCloseSinksEvents(sink_count, eos)
    /\ pc' = "done"
    /\ UNCHANGED <<owner, sink_count, eos, codec, merger, packet, nread>>

\* lines 241-245, from label end
End ==
    /\ pc = "end"
    /\ trace' = trace \o EndEvents(eos)
    /\ pc' = "done"
    /\ UNCHANGED <<owner, sink_count, eos, codec, merger, packet, nread>>

Next ==
    \/ sc_demuxer_add_sink
    \/ sc_demuxer_start
    \/ sc_demuxer_join
    \/ NegotiateCodec
    \/ OpenSinks
    \/ InitMergerAllocPacket
    \/ RecvPacket
    \/ MergePacket
    \/ PushPacket
    \/ EndOfFrames
    \/ FinallyCloseSinks
    \/ End

Spec == Init /\ [][Next]_vars

(***************************************************************************)
(* The decoding of one header, for timestamps over the whole range         *)
(* [0, 2^62): the peer has sent one frame, sc_demuxer_recv_packet reads    *)
(* it.                                                                     *)
(***************************************************************************)
\* timestamps below 2^62, as 8 big-endian bytes, from 0 to 2^62 - 1
HeaderTimestamps ==
    { <<a, b, b, b, b, b, b, c>> :
        a \in {0, 1, 32, 63}, b \in {0, 128, 255}, c \in {0, 1, 255} }

\* the frames the peer may send, with any timestamp and any flags
HeaderFrames ==
    { [Frame(1, c, k, WireLen(1)) EXCEPT !.ts = t] :
        c \in BOOLEAN, k \in BOOLEAN, t \in HeaderTimestamps }

\* run_demuxer at line 208 of an audio session without sinks; the peer has
\* sent a frame
InitHeader ==
    /\ owner = "started"
    /\ sink_count = 0
    /\ pc = "recv_packet"
    /\ eos = EosInitial
    /\ codec = "AVMEDIA_TYPE_AUDIO"
    /\ merger = NoMerger
    /\ packet = BlankPacket
    /\ nread = 0
    /\ \E f \in HeaderFrames : trace = <<Ev("send", -1, TRUE, NoView, f)>>

\* lines 208-213: the frame sent is read whole
RecvSentPacket ==
    /\ pc = "recv_packet"
    /\ Len(trace) = 1
    /\ LET f == trace[1].frame
       IN  RecvPacketOutcome(
               sc_demuxer_recv_packet(packet, SC_PACKET_HEADER_SIZE, f,
                                      FALSE, TRUE, f.len),
               TRUE)
    /\ UNCHANGED <<owner, sink_count, codec, merger>>

NextHeader == RecvSentPacket

SpecHeader == InitHeader /\ [][NextHeader]_vars

(***************************************************************************)
(* Cancellation: the owner closes the socket of a started demuxer.  A read *)
(* of an open socket may block for ever; a read of a closed socket returns *)
(* fewer bytes than requested.                                             *)
(***************************************************************************)
\* the owner closes demuxer->socket
CloseSocket ==
    /\ owner = "started"
    /\ pc # "aborted"
    /\ owner' = "socket_closed"
    /\ UNCHANGED <<sink_count, pc, eos, codec, merger, packet, nread, trace>>

SocketClosed == owner = "socket_closed"

\* the step is a read of the socket that returned fewer bytes than requested
ShortReadStep ==
    /\ Len(trace') > Len(trace)
    /\ trace'[Len(trace) + 1].op \in {"recv_codec_id", "recv_header"}
    /\ ~trace'[Len(trace) + 1].ok

\* lines 46 and 79: the blocking reads of the socket (net_recv_all)
ReadSocket ==
    /\ NegotiateCodec \/ RecvPacket
    /\ SocketClosed => ShortReadStep

\* the steps of run_demuxer that read nothing from the socket
ThreadStep ==
    \/ OpenSinks
    \/ InitMergerAllocPacket
    \/ MergePacket
    \/ PushPacket
    \/ EndOfFrames
    \/ FinallyCloseSinks
    \/ End

NextCancel ==
    \/ sc_demuxer_add_sink
    \/ sc_demuxer_start
    \/ CloseSocket
    \/ sc_demuxer_join
    \/ ReadSocket
    \/ ThreadStep

\* the thread is scheduled and every call of a sink returns; a read of the
\* socket returns once the socket is closed
FairCancel ==
    /\ WF_vars(ThreadStep)
    /\ WF_vars(SocketClosed /\ ReadSocket)

SpecCancel == Init /\ [][NextCancel]_vars /\ FairCancel

(***************************************************************************)
(* Reading the history.                                                    *)
(***************************************************************************)
Idx == 1..Len(trace)

At(op) == { k \in Idx : trace[k].op = op }

Happened(op) == At(op) # {}

\* the sinks of the events of kind op, in the order of the events
RECURSIVE SinksOf(_, _)
SinksOf(op, k) ==
    IF k = 0 THEN <<>>
    ELSE IF trace[k].op = op THEN Append(SinksOf(op, k - 1), trace[k].sink)
    ELSE SinksOf(op, k - 1)

\* the sinks n-1, ..., 0
Descending(n) == [j \in 1..n |-> n - j]

\* the sinks 0, ..., n-1
Ascending(n) == [j \in 1..n |-> j - 1]

Sinks == 0..(sink_count - 1)

SocketOps == {"recv_codec_id", "recv_header", "recv_payload"}

\* the eos passed to on_ended, when it was called
EndedEos == trace[CHOOSE k \in At("on_ended") : TRUE].ok

AllSinksOpened ==
    /\ \A s \in Sinks : \E k \in At("open") : trace[k].sink = s /\ trace[k].ok
    /\ \A k \in At("open") : trace[k].ok
    /\ \E k \in At("find_decoder") : trace[k].ok

\* the session ran to the end of run_demuxer
Ended == pc = "done"

(***************************************************************************)
(* C1: on every path that ends the session, on_ended is invoked exactly    *)
(* once, and nothing happens on a sink or the socket after it: it is the   *)
(* last action of the session.                                             *)
(***************************************************************************)
C1_OnEndedOnceAndLast ==
    /\ Cardinality(At("on_ended")) <= 1
    /\ Ended <=> Cardinality(At("on_ended")) = 1
    /\ \A k \in At("on_ended") : \A j \in Idx : j > k => trace[j].op = "join"

\* a session ended by a push failure has called on_ended
C1_Witness ==
    /\ Ended
    /\ \E k \in At("push") : ~trace[k].ok
    /\ Cardinality(At("on_ended")) = 1

(***************************************************************************)
(* C2: the eos passed to on_ended is true when fewer than 4 bytes of the   *)
(* codec tag arrive, false when 4 bytes arrive that are none of the tags   *)
(* h264, h265, av1, opus, and true when the tag is valid, all sinks open   *)
(* and the socket closes before a whole header is read.                    *)
(***************************************************************************)
KnownTags ==
    { <<104, 50, 54, 52>>, <<104, 50, 54, 53>>, <<0, 97, 118, 49>>,
      <<111, 112, 117, 115>> }

C2_EosClassification ==
    Ended =>
        /\ (\E k \in At("recv_codec_id") : ~trace[k].ok) => EndedEos
        /\ (\E k \in At("recv_codec_id") :
                trace[k].ok /\ trace[k].pkt.data \notin KnownTags) => ~EndedEos
        /\ (/\ \E k \in At("recv_codec_id") :
                    trace[k].ok /\ trace[k].pkt.data \in KnownTags
            /\ AllSinksOpened
            /\ \E k \in At("recv_header") : ~trace[k].ok) => EndedEos

\* the opus tag, two sinks opened, one packet pushed, then a short header
C2_Witness ==
    /\ Ended
    /\ sink_count = 2
    /\ AllSinksOpened
    /\ \E k \in At("recv_codec_id") : trace[k].pkt.data = <<111, 112, 117, 115>>
    /\ Happened("push")
    /\ \E k \in At("recv_header") : ~trace[k].ok
    /\ EndedEos

(***************************************************************************)
(* C3: when the open of sink i fails, exactly the sinks 0..i-1 were opened *)
(* before it, they are closed once each in the order i-1, ..., 0, sink i   *)
(* and the sinks after it are not closed and the latter not opened, no     *)
(* push is made, no packet header is read, and on_ended gets eos = false.  *)
(***************************************************************************)
C3_AllOrNothingOpen ==
    \A k \in At("open") :
        ~trace[k].ok =>
            LET i == trace[k].sink
            IN  /\ SinksOf("open", Len(trace)) = Ascending(i + 1)
                /\ \A j \in At("open") : j # k => trace[j].ok /\ j < k
                /\ SinksOf("close", Len(trace)) = Descending(i)
                /\ \A j \in At("close") : j > k
                /\ ~Happened("push")
                /\ ~Happened("recv_header")
                /\ Ended => ~EndedEos

\* three sinks, the open of the third fails, the session has ended
C3_Witness ==
    /\ Ended
    /\ sink_count = 3
    /\ \E k \in At("open") : ~trace[k].ok /\ trace[k].sink = 2
    /\ Cardinality(At("close")) = 2

(***************************************************************************)
(* C4: a push happens only after the open of every registered sink has     *)
(* succeeded; the opens are made in registration order, all of them before *)
(* the first packet header is read.                                        *)
(***************************************************************************)
C4_PushAfterAllOpened ==
    LET after == At("push") \cup At("recv_header")
    IN  /\ after # {} =>
              LET first == CHOOSE k \in after : \A j \in after : k <= j
              IN  /\ SinksOf("open", first - 1) = Ascending(sink_count)
                  /\ \A j \in At("open") : j < first /\ trace[j].ok
        /\ \E n \in 0..sink_count : SinksOf("open", Len(trace)) = Ascending(n)

\* a packet was pushed to the third of three sinks
C4_Witness ==
    /\ sink_count = 3
    /\ \E k \in At("push") : trace[k].sink = 2 /\ trace[k].ok

(***************************************************************************)
(* C5: a packet is pushed to the sinks in registration order, to each at   *)
(* most once; a sink gets it only if the push of that packet to the sink   *)
(* before it succeeded, and no push follows a failed push of the packet.   *)
(***************************************************************************)
C5_FanOutOrder ==
    \A k \in At("push") :
        LET s == trace[k].sink
        IN  /\ s \in Sinks
            /\ s = 0 => k = 1 \/ trace[k - 1].op # "push"
            /\ s > 0 => /\ trace[k - 1].op = "push"
                        /\ trace[k - 1].sink = s - 1
                        /\ trace[k - 1].ok
                        /\ trace[k - 1].pkt = trace[k].pkt
            /\ ~trace[k].ok => k = Len(trace) \/ trace[k + 1].op # "push"

\* of three sinks, the second fails a packet after all three got an earlier one
C5_Witness ==
    /\ sink_count = 3
    /\ \E k \in At("push") : trace[k].sink = 2 /\ trace[k].ok
    /\ \E k \in At("push") : trace[k].sink = 1 /\ ~trace[k].ok
    /\ pc = "end_of_frames"

(***************************************************************************)
(* C6: once a push has failed, nothing more is read from the socket and    *)
(* nothing more is pushed; every registered sink is then closed and        *)
(* on_ended gets eos = false.                                              *)
(***************************************************************************)
C6_PushFailureEndsSession ==
    \A k \in At("push") :
        ~trace[k].ok =>
            /\ \A j \in Idx :
                  j > k => trace[j].op \notin SocketOps \cup {"push", "merge", "new_packet"}
            /\ pc \in {"end_of_frames", "done"}
            /\ Ended =>
                  /\ \A s \in Sinks : \E j \in At("close") : j > k /\ trace[j].sink = s
                  /\ ~EndedEos

\* the second packet fails on the second of two sinks, the session has ended
C6_Witness ==
    /\ Ended
    /\ sink_count = 2
    /\ Cardinality({ k \in At("recv_header") : trace[k].ok }) = 2
    /\ \E k \in At("push") : trace[k].sink = 1 /\ ~trace[k].ok
    /\ Cardinality(At("close")) = 2

(***************************************************************************)
(* C7: when all sinks were opened, a session that ends (end of stream,     *)
(* packet allocation failure, merge failure, push failure) closes every    *)
(* sink exactly once, in the order n-1, ..., 0, after the read loop and    *)
(* before on_ended; no sink gets a push after a sink was closed.           *)
(***************************************************************************)
C7_CloseProtocol ==
    /\ \A c \in At("close") : \A j \in At("push") : j < c
    /\ (Ended /\ AllSinksOpened) =>
          /\ SinksOf("close", Len(trace)) = Descending(sink_count)
          /\ \A c \in At("close") :
                /\ \A j \in Idx :
                      trace[j].op \in SocketOps \cup {"merge", "packet_alloc"} => j < c
                /\ \A e \in At("on_ended") : c < e

\* three sinks were opened and a merge failure ended the session
C7_Witness ==
    /\ Ended
    /\ sink_count = 3
    /\ AllSinksOpened
    /\ \E k \in At("merge") : ~trace[k].ok
    /\ Cardinality(At("close")) = 3

(***************************************************************************)
(* The frames of the history, and what the sinks are to get of them.       *)
(***************************************************************************)
\* the frames whose header was read whole, among the first k events
RECURSIVE FramesUpTo(_)
FramesUpTo(k) ==
    IF k = 0 THEN <<>>
    ELSE IF trace[k].op = "recv_header" /\ trace[k].ok
         THEN Append(FramesUpTo(k - 1), trace[k].frame)
         ELSE FramesUpTo(k - 1)

\* the payloads of the config frames that end at frame j of fs, in order
RECURSIVE ConfigRun(_, _)
ConfigRun(fs, j) ==
    IF j = 0 \/ ~fs[j].config THEN <<>>
    ELSE ConfigRun(fs, j - 1) \o fs[j].data

\* the timestamp and flags a sink is to see for frame f
NoTimestamp == <<128, 0, 0, 0, 0, 0, 0, 0>>

FramePts(f) == IF f.config THEN NoTimestamp ELSE f.ts

FrameFlags(f) == IF f.key THEN 1 ELSE 0

TheTag == trace[CHOOSE k \in At("recv_codec_id") : TRUE].pkt.data

IsVideo ==
    /\ Happened("recv_codec_id")
    /\ TheTag \in {<<104, 50, 54, 52>>, <<104, 50, 54, 53>>, <<0, 97, 118, 49>>}

IsAudio ==
    /\ Happened("recv_codec_id")
    /\ TheTag = <<111, 112, 117, 115>>

C9_MergeResult ==
    IsVideo =>
        /\ \A k \in At("push") :
              LET fs == FramesUpTo(k)
                  f == fs[Len(fs)]
              IN  ~f.config =>
                      /\ trace[k].pkt.data = ConfigRun(fs, Len(fs) - 1) \o f.data
                      /\ trace[k].pkt.pts = f.ts
                      /\ trace[k].pkt.flags = FrameFlags(f)
        /\ pc \in {"push", "recv_packet"} =>
              LET fs == FramesUpTo(Len(trace))
              IN  merger.config = ConfigRun(fs, Len(fs))

\* two config frames, then a non-config frame pushed with the three payloads
C9_Witness ==
    /\ IsVideo
    /\ pc = "recv_packet"
    /\ merger.config = <<>>
    /\ LET fs == FramesUpTo(Len(trace))
       IN  /\ Len(fs) = 3
           /\ fs[1].config /\ fs[2].config /\ ~fs[3].config
           /\ fs[3].key
           /\ \E k \in At("push") :
                 /\ trace[k].ok
                 /\ trace[k].pkt.data = fs[1].data \o fs[2].data \o fs[3].data
                 /\ Len(trace[k].pkt.data) = 5

(***************************************************************************)
(* C10: for the audio codec the merger is neither initialized nor used;    *)
(* every packet read whole, config or not, is pushed on its own, with the  *)
(* payload, the timestamp and the flags of its frame.                      *)
(***************************************************************************)
C10_AudioBypass ==
    IsAudio =>
        /\ ~Happened("merger_init")
        /\ ~Happened("merge")
        /\ ~Happened("merger_destroy")
        /\ merger = NoMerger
        /\ \A k \in At("recv_payload") :
              (trace[k].ok /\ k < Len(trace)) =>
                  IF sink_count = 0 THEN trace[k + 1].op = "unref"
                  ELSE trace[k + 1].op = "push" /\ trace[k + 1].sink = 0
        /\ \A k \in At("push") :
              LET fs == FramesUpTo(k)
                  f == fs[Len(fs)]
              IN  /\ trace[k].pkt.data = f.data
                  /\ trace[k].pkt.pts = FramePts(f)
                  /\ trace[k].pkt.dts = FramePts(f)
                  /\ trace[k].pkt.flags = FrameFlags(f)

\* an opus stream: a config frame, then a key frame, each pushed to two sinks
C10_Witness ==
    /\ IsAudio
    /\ sink_count = 2
    /\ pc = "recv_packet"
    /\ LET fs == FramesUpTo(Len(trace))
       IN  /\ Len(fs) = 2
           /\ fs[1].config /\ ~fs[2].config /\ fs[2].key
           /\ \E k \in At("push") :
                 trace[k].sink = 1 /\ trace[k].ok /\ trace[k].pkt.data = fs[1].data
           /\ \E k \in At("push") :
                 trace[k].sink = 1 /\ trace[k].ok /\ trace[k].pkt.data = fs[2].data

(***************************************************************************)
(* C11: a header whose length field is 0 never results in a push: every    *)
(* push is made for a frame of a length other than 0, and carries a        *)
(* payload that is not empty.                                              *)
(***************************************************************************)
C11_ZeroLengthNeverPushed ==
    \A k \in At("push") :
        LET fs == FramesUpTo(k)
        IN  /\ fs[Len(fs)].len # 0
            /\ trace[k].pkt.data # <<>>

\* the last header read before position k of the history (0 if none)
LastHeader(k) ==
    LET hs == { h \in At("recv_header") : h < k }
    IN  IF hs = {} THEN 0 ELSE CHOOSE h \in hs : \A g \in hs : g <= h

(***************************************************************************)
(* C12: a packet goes to the merger or to a sink only after its whole     *)
(* header and every byte of its payload were read; after a short or       *)
(* failed payload read the partial payload is released, nothing more is   *)
(* merged, pushed or read, the loop is left and on_ended gets eos = true. *)
(***************************************************************************)
C12_PacketAtomicity ==
    /\ \A k \in At("merge") \cup At("push") :
        LET h == LastHeader(k)
        IN  /\ h > 0
            /\ trace[h].ok
            /\ h + 2 < k
            /\ trace[h + 1].op = "new_packet" /\ trace[h + 1].ok
            /\ trace[h + 2].op = "recv_payload" /\ trace[h + 2].ok
            /\ trace[h + 2].pkt.data = trace[h].frame.data
            /\ Len(trace[h + 2].pkt.data) = trace[h].frame.len
    /\ \A k \in At("recv_payload") :
        ~trace[k].ok =>
            /\ k < Len(trace)
            /\ trace[k + 1].op = "unref" /\ trace[k + 1].ok
            /\ \A j \in Idx :
                j > k => trace[j].op \notin {"merge", "push", "recv_header"}
            /\ ~packet.buf
            /\ pc \in {"end_of_frames", "done"}
            /\ Ended => EndedEos

\* a session with two sinks pushed one packet, then got a part of the
\* payload of the next one, and ended
C12_Witness ==
    /\ Ended
    /\ sink_count = 2
    /\ \E k \in At("recv_payload") :
        /\ ~trace[k].ok
        /\ trace[k].pkt.data # <<>>
        /\ \E j \in At("push") : j < k

\* a read of the socket returned fewer bytes than requested
ShortRead == \E k \in Idx : trace[k].op \in SocketOps /\ ~trace[k].ok

\* the session met a resource or protocol error
ResourceOrProtocolError ==
    \E k \in Idx :
        /\ trace[k].op \in {"new_packet", "packet_alloc", "unknown_codec",
                            "find_decoder", "open", "merge", "push"}
        /\ ~trace[k].ok

(***************************************************************************)
(* C13: on_ended gets eos = true only when a read of the socket (codec     *)
(* tag, header or payload) returned fewer bytes than requested; a session  *)
(* ended by a resource or protocol error (payload buffer or packet         *)
(* allocation failure, unknown tag, decoder not found, open, merge or push *)
(* failure) gets eos = false.                                              *)
(***************************************************************************)
C13_EosOnlyOnShortRead ==
    Ended =>
        /\ EndedEos => ShortRead
        /\ ResourceOrProtocolError => ~EndedEos

\* the 4 bytes of the tag are none of the known tags
UnknownTag ==
    \E k \in At("recv_codec_id") :
        trace[k].ok /\ trace[k].pkt.data \notin KnownTags

\* the tag is known and avcodec_find_decoder returned NULL
DecoderNotFound ==
    /\ \E k \in At("recv_codec_id") :
        trace[k].ok /\ trace[k].pkt.data \in KnownTags
    /\ \E k \in At("find_decoder") : ~trace[k].ok

(***************************************************************************)
(* C14: when the 4-byte tag is not recognized, or is recognized but no     *)
(* decoder is found for it, no sink is opened, pushed to or closed, no     *)
(* packet header is read, and on_ended gets eos = false.                   *)
(***************************************************************************)
C14_ClassificationError ==
    (UnknownTag \/ DecoderNotFound) =>
        /\ \A k \in Idx :
            trace[k].op \notin {"open", "push", "close", "recv_header",
                                "recv_payload", "merge", "merger_init",
                                "packet_alloc"}
        /\ pc \in {"end", "done"}
        /\ ~eos
        /\ Ended => ~EndedEos

\* the tag "h263" arrived in a session with two sinks, which ended and was
\* joined
C14_Witness ==
    /\ owner = "joined"
    /\ sink_count = 2
    /\ UnknownTag
    /\ TheTag = <<104, 50, 54, 51>>
    /\ Happened("on_ended")
    /\ ~EndedEos

\* the pushes made to sink s, as positions of the history
PushesTo(s) == { k \in At("push") : trace[k].sink = s }

(***************************************************************************)
(* C15: every sink gets the packets in the order their headers were read   *)
(* (each push is of the frame read last, so the frames a sink gets are in  *)
(* strictly increasing order and none is pushed to it twice), and a header *)
(* is read only after the packet before it was merged, if the stream is    *)
(* video, and pushed to every sink.                                        *)
(***************************************************************************)
C15_OrderAndSerialization ==
    /\ \A k \in At("push") :
        LET h == LastHeader(k)
            f == trace[h].frame
            d == trace[k].pkt.data
        IN  /\ h > 0
            /\ trace[k].pkt.pts = FramePts(f)
            /\ Len(d) >= f.len
            /\ SubSeq(d, Len(d) - f.len + 1, Len(d)) = f.data
            /\ \A j \in PushesTo(trace[k].sink) :
                j < k => LastHeader(j) < h
    /\ \A k \in At("recv_header") :
        LET h == LastHeader(k)
        IN  h > 0 =>
            /\ trace[h].ok
            /\ \A s \in Sinks :
                \E j \in PushesTo(s) : h < j /\ j < k /\ trace[j].ok
            /\ IsVideo => \E j \in At("merge") : h < j /\ j < k /\ trace[j].ok

\* a video session with two sinks that read and pushed three packets
C15_Witness ==
    /\ sink_count = 2
    /\ IsVideo
    /\ Cardinality(PushesTo(1)) = 3
    /\ Cardinality({ k \in At("recv_header") : trace[k].ok }) = 3

(***************************************************************************)
(* C16: a header that encodes a timestamp of [0, 2^62) in bits 0-61,       *)
(* is_key_frame in bit 62 and is_config in bit 63 decodes to the same      *)
(* key-frame flag and, when is_config is false, to the same timestamp;     *)
(* when is_config is true the decoded timestamp is the no-timestamp        *)
(* sentinel whatever bits 0-61 are.  The decoded dts equals the decoded    *)
(* pts.                                                                    *)
(***************************************************************************)
C16_HeaderRoundTrip ==
    pc = "push" =>
        LET f == trace[1].frame
        IN  /\ (BitAnd(packet.flags, AV_PKT_FLAG_KEY) # 0) = f.key
            /\ ~f.config => packet.pts = f.ts
            /\ f.config => packet.pts = NoTimestamp
            /\ packet.dts = packet.pts
            /\ packet.data = f.data

\* the key frame with the timestamp 2^62 - 1 was decoded
C16_Witness ==
    /\ pc = "push"
    /\ trace[1].op = "send"
    /\ trace[1].frame.ts = <<63, 255, 255, 255, 255, 255, 255, 255>>
    /\ trace[1].frame.key
    /\ ~trace[1].frame.config
    /\ packet.pts = <<63, 255, 255, 255, 255, 255, 255, 255>>
    /\ packet.flags = AV_PKT_FLAG_KEY

(***************************************************************************)
(* C17: after a successful start, join returns only when the session is    *)
(* closed: every close of a sink and the on_ended callback come before the *)
(* return of join, and no operation on a sink and no callback comes after  *)
(* it.                                                                     *)
(***************************************************************************)
C17_JoinOrdering ==
    /\ owner = "joined" <=> Happened("join")
    /\ owner = "joined" => Ended
    /\ Cardinality(At("join")) <= 1
    /\ \A j \in At("join") :
        /\ \E k \in At("on_ended") : k < j
        /\ \A k \in Idx :
            trace[k].op \in {"open", "push", "close", "on_ended"} => k < j
        /\ \E k \in At("recv_codec_id") : k < j

\* a session with two sinks read packets, closed both sinks, called
\* on_ended, and was joined
C17_Witness ==
    /\ owner = "joined"
    /\ sink_count = 2
    /\ Happened("push")
    /\ Cardinality(At("close")) = 2
    /\ trace[Len(trace)].op = "join"
    /\ trace[Len(trace) - 1].op = "on_ended"

(***************************************************************************)
(* C19: when a session that initialized the merger is closed, the merger   *)
(* was torn down exactly once, before the first close of a sink; a session *)
(* that did not initialize the merger (audio, or ended before the sinks    *)
(* were opened) neither uses it nor tears it down.                         *)
(***************************************************************************)
C19_MergerTeardown ==
    /\ Happened("merger_init") <=> (IsVideo /\ Happened("packet_alloc"))
    /\ (Ended /\ Happened("merger_init")) =>
        /\ Cardinality(At("merger_destroy")) = 1
        /\ \A d \in At("merger_destroy") :
            /\ \A k \in At("merger_init") \cup At("merge") : k < d
            /\ \A k \in At("close") \cup At("on_ended") : d < k
    /\ ~Happened("merger_init") =>
        /\ ~Happened("merge")
        /\ ~Happened("merger_destroy")
        /\ merger = NoMerger

\* the payload buffers allocated before position k of the history
AllocatedBefore(k) == { a \in At("new_packet") : trace[a].ok /\ a < k }

\* the releases of a payload buffer before position k of the history
ReleasedBefore(k) == { u \in At("unref") : u < k }

(***************************************************************************)
(* C20: the packet holds no payload buffer at the start of an iteration of *)
(* the read loop; a buffer allocated for a packet is released exactly once *)
(* before the next iteration or the exit of the loop, whatever the outcome *)
(* (short payload, merge failure, push success, push failure), so that no  *)
(* buffer is held when the sinks are closed and none is released twice.    *)
(***************************************************************************)
C20_BufferOwnership ==
    /\ pc \in {"recv_packet", "end_of_frames", "done"} =>
        /\ ~packet.buf
        /\ Cardinality(AllocatedBefore(Len(trace) + 1))
              = Cardinality(ReleasedBefore(Len(trace) + 1))
    /\ pc \in {"merge", "push"} => packet.buf
    /\ \A u \in At("unref") :
        /\ trace[u].ok
        /\ Cardinality(AllocatedBefore(u)) = Cardinality(ReleasedBefore(u)) + 1
    /\ \A a \in At("new_packet") :
        Cardinality(AllocatedBefore(a)) = Cardinality(ReleasedBefore(a))
    /\ \A c \in At("close") \cup At("packet_free") :
        Cardinality(AllocatedBefore(c)) = Cardinality(ReleasedBefore(c))

\* a video session with two sinks pushed one packet and failed to merge the
\* next one; both buffers were released and the sinks are closed
C20_Witness ==
    /\ Ended
    /\ sink_count = 2
    /\ \E k \in At("push") : trace[k].ok
    /\ \E k \in At("merge") : ~trace[k].ok
    /\ Cardinality(At("unref")) = 2
    /\ Cardinality(At("close")) = 2

\* the positions of run_demuxer other than the reads of the socket
Running ==
    {"open_sinks", "init_merger", "merge", "push", "end_of_frames",
     "finally_close_sinks", "end"}

\* a read that returns short after the close ends the loop with eos = true
C18_ShortReadAfterClose ==
    (SocketClosed /\ ShortReadStep) =>
        /\ eos'
        /\ pc' \in {"end", "end_of_frames"}

(***************************************************************************)
(* C18: when every call of a sink returns and the thread is scheduled      *)
(* fairly, a demuxer whose socket the owner has closed eventually reaches  *)
(* Closed, with on_ended called; a read that returns short after the close *)
(* ends the session with eos = true; at every position other than the      *)
(* reads of the socket the thread has a step to take.                      *)
(***************************************************************************)
C18_CancelBySocketClose ==
    /\ SocketClosed ~> (Ended /\ Happened("on_ended"))
    /\ [][C18_ShortReadAfterClose]_vars
    /\ [](SocketClosed /\ Ended /\ ShortRead => EndedEos)
    /\ [](pc \in Running => ENABLED ThreadStep)

\* the owner closed the socket of a video session with two sinks that had
\* pushed a packet; the read of the next header returned short, the sinks
\* were closed and on_ended got eos = true
C18_Witness ==
    /\ SocketClosed
    /\ Ended
    /\ sink_count = 2
    /\ IsVideo
    /\ nread < MaxPackets
    /\ \E k \in At("push") : trace[k].ok
    /\ \E k \in At("recv_header") : ~trace[k].ok
    /\ Cardinality(At("close")) = 2
    /\ EndedEos

====
